---- MODULE Spec2Model ----
(***************************************************************************)
(* Model of the event recommendation engine of content-service             *)
(* (app/services/recommender.py, app/services/firestore_client.py).        *)
(*                                                                         *)
(* Python dicts are functions over string keys (records); a key that is    *)
(* not in the DOMAIN is an absent key.  Identifiers are integers (0 is a   *)
(* falsy identifier: None or "").  Strings that the code splits or strips  *)
(* (city, location, topCities keys) are sequences of one-character         *)
(* strings.  Instants are integers; the clock starts at 0.  The trending   *)
(* score is kept in tenths and conversionRate in hundredths, so that the   *)
(* weights 0.1, 2, 1.5 and 10 become 1, 20, 15 and 1 (times 1/10).         *)
(***************************************************************************)
EXTENDS Integers, Sequences, FiniteSets, TLC

VARIABLES store, faults, req, dbCached, clock, pc, nowRetrieve, nowCall,
          pool, events, profile, analytics, lookups, result, raised,
          call, ret, lruCache, clients, threads

vars == <<store, faults, req, dbCached, clock, pc, nowRetrieve, nowCall,
          pool, events, profile, analytics, lookups, result, raised,
          call, ret, lruCache, clients, threads>>

(***************************************************************************)
(* Program constants and bounds                                            *)
(***************************************************************************)
MAX_RECOMMENDATIONS == 10
MAX_CANDIDATES == 100
ANALYTICS_BATCH == 50
LIMIT_MAX == 50
PRICE_MATCH_FREE == 5
PRICE_MATCH_PAID == 2

\* longest events collection enumerated exhaustively over DocBodies
MaxDocs == 2
\* longest time the store reads of one request take (clock ticks)
MaxLatency == 1
\* worker threads that serve requests at the same time
MaxWorkers == 3

(***************************************************************************)
(* Dict and string helpers                                                 *)
(***************************************************************************)
EmptyDict == [k \in {} |-> 0]
NONE == "<None>"
NoId == 0

Has(d, k) == k \in DOMAIN d
Get(d, k, default) == IF k \in DOMAIN d THEN d[k] ELSE default
Min(a, b) == IF a <= b THEN a ELSE b

\* x[:n] for n >= 0
Prefix(s, n) == SubSeq(s, 1, Min(n, Len(s)))

RECURSIVE IndexOf(_, _, _)
\* index of the first c in s at or after i, or Len(s)+1
IndexOf(s, c, i) ==
    IF i > Len(s) THEN Len(s) + 1
    ELSE IF s[i] = c THEN i
    ELSE IndexOf(s, c, i + 1)

\* s.split(",")[0]
SplitFirst(s) == SubSeq(s, 1, IndexOf(s, ",", 1) - 1)

RECURSIVE LStrip(_)
LStrip(s) == IF s # <<>> /\ Head(s) = " " THEN LStrip(Tail(s)) ELSE s

RECURSIVE RStrip(_)
RStrip(s) ==
    IF s # <<>> /\ s[Len(s)] = " " THEN RStrip(SubSeq(s, 1, Len(s) - 1)) ELSE s

\* s.strip()
Strip(s) == RStrip(LStrip(s))

(***************************************************************************)
(* Dates.  A "date" value is [kind, t]:                                    *)
(*   "datetime"  a timezone-aware datetime of the store (instant t)        *)
(*   "iso_aware" an ISO-8601 string with an offset or Z (instant t)        *)
(*   "iso_naive" an ISO-8601 string without offset (naive datetime)        *)
(*   "text"      a string that is no ISO-8601 date                         *)
(*   "number"    a value that is neither a datetime nor a string           *)
(***************************************************************************)
NoDate == [some |-> FALSE, aware |-> FALSE, t |-> 0]

\* _parse_event_date
ParseEventDate(event) ==
    IF ~Has(event, "date") THEN NoDate
    ELSE LET d == event["date"] IN
         CASE d.kind = "datetime"  -> [some |-> TRUE, aware |-> TRUE, t |-> d.t]
           [] d.kind = "iso_aware" -> [some |-> TRUE, aware |-> TRUE, t |-> d.t]
           [] d.kind = "iso_naive" -> [some |-> TRUE, aware |-> FALSE, t |-> d.t]
           [] OTHER                -> NoDate

\* _serialize_value on the fields of one event: a datetime becomes its
\* isoformat() string, every other value is returned as it is
SerializeValue(e) ==
    [k \in DOMAIN e |->
        IF k = "date" /\ e[k].kind = "datetime"
        THEN [kind |-> "iso_aware", t |-> e[k].t]
        ELSE e[k]]

(***************************************************************************)
(* Store client (firestore_client.py)                                      *)
(***************************************************************************)
GetDbUncached(cached, createOk) == [ok |-> createOk, cached |-> cached]

\* get_db under lru_cache(maxsize=1): a cached client is returned without
\* construction; a construction that raises caches nothing
GetDb(cached, createOk) ==
    [ok |-> cached \/ createOk, cached |-> cached \/ createOk]

(***************************************************************************)
(* Signal fetchers                                                         *)
(***************************************************************************)
NoProfile == [some |-> FALSE, data |-> EmptyDict]

\* get_user_interest_profile: None when get_db or the get raises, when the
\* document does not exist, or when its dict is empty
GetUserInterestProfile(profiles, user_id, dbOk, getFails) ==
    IF ~dbOk \/ getFails THEN [raised |-> FALSE, value |-> NoProfile]
    ELSE LET doc == Get(profiles, user_id, [exists |-> FALSE, data |-> EmptyDict]) IN
         [raised |-> FALSE,
          value |-> IF ~doc.exists THEN NoProfile
                    ELSE IF doc.data = EmptyDict THEN NoProfile
                    ELSE [some |-> TRUE, data |-> doc.data]]

MissingDoc == [exists |-> FALSE, data |-> EmptyDict]

\* the loop body of get_event_analytics stores a document for eid: the get
\* does not raise, the document exists and its dict is not empty
Stored(eid, docs, failing) ==
    /\ eid \notin failing
    /\ Get(docs, eid, MissingDoc).exists
    /\ Get(docs, eid, MissingDoc).data # EmptyDict

\* the mapping built by the loop of get_event_analytics over batch
FetchEach(batch, docs, failing) ==
    [eid \in {batch[i] : i \in {j \in 1..Len(batch) : Stored(batch[j], docs, failing)}}
        |-> docs[eid].data]

GetEventAnalyticsAbort(event_ids, docs, dbOk, failing) ==
    IF event_ids = <<>>
    THEN [raised |-> FALSE, result |-> EmptyDict, looked |-> <<>>]
    ELSE IF ~dbOk THEN [raised |-> TRUE, result |-> EmptyDict, looked |-> <<>>]
    ELSE LET batch == Prefix(event_ids, ANALYTICS_BATCH)
             bad   == {i \in 1..Len(batch) : batch[i] \in failing}
             upto  == IF bad = {} THEN Len(batch)
                      ELSE CHOOSE i \in bad : \A j \in bad : i <= j
         IN [raised |-> FALSE,
             result |-> FetchEach(Prefix(batch, upto), docs, failing),
             looked |-> Prefix(batch, upto)]

\* get_event_analytics: no store call for an empty list; get_db is outside
\* the try; one get per identifier of event_ids[:50], a get that raises is
\* logged and skipped
GetEventAnalytics(event_ids, docs, dbOk, failing) ==
    IF event_ids = <<>>
    THEN [raised |-> FALSE, result |-> EmptyDict, looked |-> <<>>]
    ELSE IF ~dbOk THEN [raised |-> TRUE, result |-> EmptyDict, looked |-> <<>>]
    ELSE LET batch == Prefix(event_ids, ANALYTICS_BATCH)
         IN [raised |-> FALSE,
             result |-> FetchEach(batch, docs, failing),
             looked |-> batch]

(***************************************************************************)
(* Candidate retriever                                                     *)
(***************************************************************************)
\* {"id": doc.id, **data}
WithId(docId, data) ==
    [k \in {"id"} \cup DOMAIN data |-> IF k \in DOMAIN data THEN data[k] ELSE docId]

IsActive(doc) == Has(doc.data, "status") /\ doc.data["status"] = "active"

\* .where("status", "==", "active").limit(limit): the first limit documents,
\* in stream order, whose status field is "active"
SelectActive(docs, limit) == Prefix(SelectSeq(docs, IsActive), limit)

NoFail == -1

IsPrivate(data) == Has(data, "isPublic") /\ data["isPublic"] = FALSE

SkipsDocKeepPrivate(data, now) ==
    LET dt == ParseEventDate(data) IN dt.some /\ dt.t < now

\* the two continue statements of the loop: isPublic is False, or the
\* parsed date is earlier than now
SkipsDoc(data, now) ==
    \/ IsPrivate(data)
    \/ LET dt == ParseEventDate(data) IN dt.some /\ dt.t < now

\* event_dt < now raises TypeError: a naive datetime against the aware now
ComparisonRaises(data) ==
    /\ ~IsPrivate(data)
    /\ LET dt == ParseEventDate(data) IN dt.some /\ ~dt.aware

\* the number of documents the loop handles completely before an exception
\* ends it.  failAt = k: the stream raises after it yielded k documents.
Completed(q, failAt) ==
    LET stops == {i \in 1..Len(q) : failAt = i - 1 \/ ComparisonRaises(q[i].data)}
    IN IF stops = {} THEN Len(q)
       ELSE (CHOOSE i \in stops : \A j \in stops : i <= j) - 1

\* for doc in q.stream(): ... inside the try: the events appended before an
\* exception, or all of them
StreamLoop(q, now, failAt) ==
    LET Kept(doc) == ~SkipsDoc(doc.data, now)
        kept == SelectSeq(Prefix(q, Completed(q, failAt)), Kept)
    IN [i \in 1..Len(kept) |-> WithId(kept[i].id, kept[i].data)]

\* get_upcoming_events: an exception (get_db, the query, the stream, the
\* date comparison) is caught and the list built so far is returned
GetUpcomingEvents(docs, now, limit, dbOk, failAt) ==
    IF ~dbOk THEN <<>>
    ELSE StreamLoop(SelectActive(docs, limit), now, failAt)

(***************************************************************************)
(* Scorer                                                                  *)
(***************************************************************************)
\* d.get(k) or "" for a string field: an absent key, None and "" are falsy
StrOr(d, k) == Get(d, k, "")
SeqOr(d, k) == Get(d, k, <<>>)

\* event.get("category") or event.get("categoryName")
EventCategory(event) ==
    IF StrOr(event, "category") # "" THEN StrOr(event, "category")
    ELSE StrOr(event, "categoryName")

\* event.get("city") or (event.get("location") or "").split(",")[0].strip()
EventCity(event) ==
    IF SeqOr(event, "city") # <<>> THEN SeqOr(event, "city")
    ELSE Strip(SplitFirst(SeqOr(event, "location")))

\* price == 0 or (isinstance(ticketTypes, dict)
\*                and ticketTypes.get("free", {}).get("price") == 0)
IsFree(event) ==
    \/ event["price"] = 0
    \/ /\ Has(event, "ticketTypes")
       /\ event["ticketTypes"].isDict
       /\ LET tier == Get(event["ticketTypes"].tiers, "free", EmptyDict)
          IN Has(tier, "price") /\ tier["price"] = 0

ScoreEventWithProfileNoElif(event, prof) ==
    LET top_categories == Get(prof, "topCategories", EmptyDict)
        top_cities     == Get(prof, "topCities", EmptyDict)
        price_pref     == StrOr(prof, "pricePreference")
        cat            == EventCategory(event)
        city           == EventCity(event)
    IN (IF cat # "" /\ cat \in DOMAIN top_categories THEN top_categories[cat] ELSE 0)
     + (IF city # <<>> /\ city \in DOMAIN top_cities THEN top_cities[city] ELSE 0)
     + (IF Has(event, "price") /\ price_pref # ""
        THEN IF price_pref = "free" /\ IsFree(event) THEN PRICE_MATCH_FREE
             ELSE IF ~IsFree(event) THEN PRICE_MATCH_PAID
             ELSE 0
        ELSE 0)

\* score_event_with_profile
ScoreEventWithProfile(event, prof) ==
    LET top_categories == Get(prof, "topCategories", EmptyDict)
        top_cities     == Get(prof, "topCities", EmptyDict)
        price_pref     == StrOr(prof, "pricePreference")
        cat            == EventCategory(event)
        city           == EventCity(event)
    IN (IF cat # "" /\ cat \in DOMAIN top_categories THEN top_categories[cat] ELSE 0)
     + (IF city # <<>> /\ city \in DOMAIN top_cities THEN top_cities[city] ELSE 0)
     + (IF Has(event, "price") /\ price_pref # ""
        THEN IF price_pref = "free" /\ IsFree(event) THEN PRICE_MATCH_FREE
             ELSE IF price_pref = "paid" /\ ~IsFree(event) THEN PRICE_MATCH_PAID
             ELSE 0
        ELSE 0)

ScoreEventTrendingViewsOnly(event, an) ==
    LET eid == Get(event, "id", NoId) IN
    IF eid = NoId THEN 0
    ELSE LET a == Get(an, eid, EmptyDict) IN
         IF a = EmptyDict THEN 0
         ELSE Get(a, "views", 0) + 20 * Get(a, "favorites", 0)

\* score_event_trending, in tenths:
\* views*0.1 + favorites*2 + shares*1.5 + conversionRate*10
ScoreEventTrending(event, an) ==
    LET eid == Get(event, "id", NoId) IN
    IF eid = NoId THEN 0
    ELSE LET a == Get(an, eid, EmptyDict) IN
         IF a = EmptyDict THEN 0
         ELSE Get(a, "views", 0) + 20 * Get(a, "favorites", 0)
              + 15 * Get(a, "shares", 0) + Get(a, "conversionRate", 0)

(***************************************************************************)
(* Ranking                                                                 *)
(***************************************************************************)
SortKeyLateFirst(item) ==
    LET d == ParseEventDate(item.e) IN
    [s |-> item.s, inf |-> ~d.some, negts |-> IF d.some THEN d.t ELSE 0]

\* _sort_key: (s, -ts) with ts = d.timestamp() or float("inf")
SortKey(item) ==
    LET d == ParseEventDate(item.e) IN
    [s |-> item.s, inf |-> ~d.some, negts |-> IF d.some THEN 0 - d.t ELSE 0]

\* tuple comparison a < b of two sort keys; -inf is below every float
KeyLess(a, b) ==
    \/ a.s < b.s
    \/ /\ a.s = b.s
       /\ \/ a.inf /\ ~b.inf
          \/ ~a.inf /\ ~b.inf /\ a.negts < b.negts

\* F applied to the value of v, which is computed once
Bind(v, F(_)) == CHOOSE r \in {F(x) : x \in {v}} : TRUE

\* the position of each item after a descending stable sort on key: behind
\* the items of greater key and the earlier items of equal key
Ranks(key) ==
    [i \in 1..Len(key) |->
        1 + Cardinality({j \in 1..Len(key) :
                \/ KeyLess(key[i], key[j])
                \/ j < i /\ ~KeyLess(key[j], key[i])})]

Arrange(scored, rank) ==
    [p \in 1..Len(scored) |-> scored[CHOOSE i \in 1..Len(scored) : rank[i] = p]]

\* scored.sort(key=_sort_key, reverse=True)
SortReverse(scored) ==
    Bind(scored, LAMBDA sc :
        Bind([i \in 1..Len(sc) |-> SortKey(sc[i])], LAMBDA key :
            Bind(Ranks(key), LAMBDA rank : Arrange(sc, rank))))

\* [e for e in events if (_parse_event_date(e) or now) >= now]
FilterPast(evs, now) ==
    LET Upcoming(e) == LET d == ParseEventDate(e) IN ~d.some \/ d.t >= now
    IN SelectSeq(evs, Upcoming)

\* [e.get("id") for e in events if e.get("id")]
EventIds(evs) ==
    LET HasId(e) == Get(e, "id", NoId) # NoId
        with == SelectSeq(evs, HasId)
    IN [i \in 1..Len(with) |-> with[i]["id"]]

Truthy(d, k) == Has(d, k) /\ d[k] # EmptyDict

SelectStrategyPriceCounts(prof) ==
    IF prof.some /\ (Truthy(prof.data, "topCategories") \/ Truthy(prof.data, "topCities")
                     \/ StrOr(prof.data, "pricePreference") # "")
    THEN "personalized" ELSE "trending"

SelectStrategyBoth(prof) ==
    IF prof.some /\ Truthy(prof.data, "topCategories") /\ Truthy(prof.data, "topCities")
    THEN "personalized" ELSE "trending"

\* profile and (profile.get("topCategories") or profile.get("topCities"))
SelectStrategy(prof) ==
    IF prof.some /\ (Truthy(prof.data, "topCategories") \/ Truthy(prof.data, "topCities"))
    THEN "personalized" ELSE "trending"

ScoreBlended(source, e, prof, an) ==
    IF source = "personalized"
    THEN ScoreEventWithProfile(e, prof.data) + ScoreEventTrending(e, an)
    ELSE ScoreEventTrending(e, an)

\* lines 189 and 204: the score of a candidate under the selected strategy
Score(source, e, prof, an) ==
    IF source = "personalized" THEN ScoreEventWithProfile(e, prof.data)
    ELSE ScoreEventTrending(e, an)

TakeTopAll(scored, limit) == scored
TakeTopSkipFirst(scored, limit) == SubSeq(scored, 2, Min(limit + 1, Len(scored)))

\* scored[:limit] for limit >= 1
TakeTop(scored, limit) == Prefix(scored, limit)

\* _serialize_value({**e, "id": e.get("id")})
SerializeEvent(e) ==
    SerializeValue([k \in DOMAIN e \cup {"id"} |->
                       IF k = "id" THEN Get(e, "id", NoId) ELSE e[k]])

\* lines 184-222 of recommend_events on the re-filtered candidates
RankEvents(evs, prof, an, limit) ==
    LET source == SelectStrategy(prof) IN
    Bind(SortReverse([i \in 1..Len(evs) |->
                         [e |-> evs[i], s |-> Score(source, evs[i], prof, an)]]),
         LAMBDA sorted :
            Bind(TakeTop(sorted, limit), LAMBDA top :
                [events |-> [i \in 1..Len(top) |-> SerializeEvent(top[i].e)],
                 source |-> source]))

(***************************************************************************)
(* The store contents, requests and store failures that are enumerated     *)
(***************************************************************************)
K == <<"K">>
L == <<"L">>
Future(t) == [kind |-> "datetime", t |-> t]

\* bodies of events documents: the instants -1 (past), 0 (the start of the
\* request), 1 and 2 (upcoming)
DocBodies ==
    { [status |-> "active", category |-> "music", city |-> K, price |-> 0,
       date |-> Future(2)],
      [status |-> "active", isPublic |-> TRUE, categoryName |-> "music",
       location |-> <<" ", "K", " ", ",", "x">>, price |-> 0, date |-> Future(1)],
      [status |-> "active", category |-> "sport"],
      [status |-> "active", isPublic |-> FALSE, category |-> "music",
       date |-> Future(2)],
      [status |-> "draft", category |-> "music", date |-> Future(2)],
      [status |-> "active", category |-> "music", date |-> Future(-1)],
      [status |-> "active", category |-> "music", city |-> K, date |-> Future(0)],
      [status |-> "active", category |-> "music",
       date |-> [kind |-> "iso_naive", t |-> 2]],
      [status |-> "active", category |-> "music", city |-> K, price |-> 0,
       date |-> [kind |-> "text", t |-> 0]],
      [status |-> "active", id |-> 1, city |-> L, price |-> 100,
       date |-> [kind |-> "iso_aware", t |-> 2]] }

\* the events collection holding the given bodies, identifiers 1, 2, ...
Docs(bodies) == [i \in 1..Len(bodies) |-> [id |-> i, data |-> bodies[i]]]

BodySeqs(n) == UNION {[1..k -> DocBodies] : k \in 0..n}

\* a large collection: more documents than the candidate cap allows
BulkBody(i) ==
    [status |-> "active", category |-> IF i % 2 = 0 THEN "music" ELSE "sport",
     date |-> Future(1 + (i % 3))]
Bulk(n) == [i \in 1..n |-> [id |-> i, data |-> BulkBody(i)]]

FixedStores ==
    { <<>>,
      Docs(<<[status |-> "active", category |-> "sport"]>>),
      Docs(<<[status |-> "active", category |-> "sport", date |-> Future(0)],
             [status |-> "active", category |-> "music", city |-> K, price |-> 0,
              date |-> Future(2)],
             [status |-> "active", categoryName |-> "music", city |-> K,
              price |-> 0, date |-> Future(1)]>>),
      Docs(<<[status |-> "active", city |-> L, price |-> 100],
             [status |-> "active", category |-> "music", date |-> Future(2)],
             [status |-> "active", category |-> "music", date |-> Future(1)]>>) }

PDoc(data) == [exists |-> TRUE, data |-> data]
PFull ==
    PDoc([topCategories |-> [music |-> 3, sport |-> 1], topCities |-> (K :> 2),
          pricePreference |-> "free"])
ProfileDocs ==
    { MissingDoc,
      PDoc(EmptyDict),
      PDoc([pricePreference |-> "free"]),
      PDoc([topCategories |-> EmptyDict, topCities |-> EmptyDict,
            pricePreference |-> "paid"]),
      PDoc([topCategories |-> [music |-> 3]]),
      PDoc([topCities |-> (L :> 2), pricePreference |-> "paid"]),
      PFull }

IdRange == 1..(MAX_CANDIDATES + 1)
ADoc(data) == [exists |-> TRUE, data |-> data]
AnalyticsStores ==
    { [i \in IdRange |-> MissingDoc],
      [i \in IdRange |-> ADoc([views |-> 10])],
      [i \in IdRange |->
          CASE i % 4 = 0 -> MissingDoc
            [] i % 4 = 1 -> ADoc([views |-> 10, favorites |-> 5, shares |-> 2,
                                  conversionRate |-> 30])
            [] i % 4 = 2 -> ADoc(EmptyDict)
            [] OTHER     -> ADoc([favorites |-> 1, shares |-> 100])] }
AVaried == CHOOSE a \in AnalyticsStores : a[2].exists /\ ~a[4].exists

NoFaults ==
    [dbFail |-> {}, streamFailAt |-> NoFail, profileFail |-> FALSE,
     analyticsFail |-> {}, latency |-> 0]

\* many events collections, one profile, failures of the events stream
InitEvents ==
    /\ \E b \in BodySeqs(MaxDocs) :
          store = [events |-> Docs(b), profiles |-> ("u1" :> PFull),
                   analytics |-> AVaried]
    /\ req \in [user_id : {NONE, "u1"}, limit : {1, 2}]
    /\ \E f \in {NoFail} \cup 0..MaxDocs, l \in 0..MaxLatency :
          faults = [NoFaults EXCEPT !.streamFailAt = f, !.latency = l]

\* few events collections, every profile and analytics collection, failures
\* of the client construction and of the profile and analytics gets
InitSignals ==
    /\ \E ev \in FixedStores, p \in ProfileDocs, a \in AnalyticsStores :
          store = [events |-> ev, profiles |-> ("u1" :> p), analytics |-> a]
    /\ req \in [user_id : {NONE, "", "u1"}, limit : {1, LIMIT_MAX}]
    /\ \E d \in {{}, {"events"}, {"profile", "analytics"}}, pf \in BOOLEAN,
          af \in {{}, {1}, {2, 3}, {1, 2, 3}} :
          faults = [NoFaults EXCEPT !.dbFail = d, !.profileFail = pf,
                                    !.analyticsFail = af]

\* collections larger than the analytics batch and the candidate cap
InitBulk ==
    /\ \E n \in {ANALYTICS_BATCH + 1, MAX_CANDIDATES + 1} :
          store = [events |-> Bulk(n), profiles |-> ("u1" :> PFull),
                   analytics |-> AVaried]
    /\ req \in [user_id : {NONE, "u1"}, limit : {1, LIMIT_MAX}]
    /\ \E f \in {NoFail, ANALYTICS_BATCH + 10},
          af \in {{}, {1}, {1, ANALYTICS_BATCH}, {ANALYTICS_BATCH + 1}},
          l \in {0, 2} :
          faults = [NoFaults EXCEPT !.streamFailAt = f, !.analyticsFail = af,
                                    !.latency = l]

(***************************************************************************)
(* One request through recommend_events                                    *)
(***************************************************************************)
NoResult == [events |-> <<>>, source |-> "pending"]
NoCall == [fn |-> "none", event |-> EmptyDict, profile |-> EmptyDict,
           analytics |-> EmptyDict]
NoRet == [done |-> FALSE, value |-> 0]

\* the cache of get_db is empty and no client exists when the process starts;
\* a worker thread begins its request at the get_db call of get_upcoming_events
NoClient == 0
Workers == 1..MaxWorkers
NewThread == [step |-> "events", at |-> "call", mine |-> NoClient, got |-> {}]

InitRequest ==
    /\ dbCached = FALSE
    /\ clock = 0
    /\ nowRetrieve = 0
    /\ nowCall = 0
    /\ pool = <<>>
    /\ events = <<>>
    /\ profile = NoProfile
    /\ analytics = EmptyDict
    /\ lookups = <<>>
    /\ result = NoResult
    /\ raised = FALSE
    /\ ret = NoRet
    /\ lruCache = NoClient
    /\ clients = 0
    /\ threads = [t \in Workers |-> NewThread]

Init ==
    /\ InitEvents \/ InitSignals \/ InitBulk
    /\ InitRequest
    /\ pc = "start"
    /\ call = NoCall

\* lines 173-175: events = get_upcoming_events(limit=MAX_CANDIDATES), which
\* reads the clock first; an empty list ends the request with source "none"
RetrieveCandidates ==
    /\ pc = "start"
    /\ LET db == GetDb(dbCached, "events" \notin faults.dbFail)
           r  == GetUpcomingEvents(store.events, clock, MAX_CANDIDATES, db.ok,
                                   faults.streamFailAt)
       IN /\ dbCached' = db.cached
          /\ nowRetrieve' = clock
          /\ pool' = r
          /\ events' = r
          /\ IF r = <<>>
             THEN result' = [events |-> <<>>, source |-> "none"] /\ pc' = "done"
             ELSE result' = result /\ pc' = "profile"
    /\ clock' = clock + faults.latency
    /\ UNCHANGED <<store, faults, req, nowCall, profile, analytics, lookups,
                   raised, call, ret>>
    /\ UNCHANGED <<lruCache, clients, threads>>

\* line 177: profile = get_user_interest_profile(user_id) if user_id else None
FetchProfile ==
    /\ pc = "profile"
    /\ IF req.user_id \notin {NONE, ""}
       THEN LET db == GetDb(dbCached, "profile" \notin faults.dbFail)
                r  == GetUserInterestProfile(store.profiles, req.user_id, db.ok,
                                             faults.profileFail)
            IN /\ dbCached' = db.cached
               /\ profile' = r.value
               /\ raised' = r.raised
               /\ pc' = IF r.raised THEN "done" ELSE "analytics"
       ELSE /\ profile' = NoProfile
            /\ pc' = "analytics"
            /\ UNCHANGED <<dbCached, raised>>
    /\ UNCHANGED <<store, faults, req, clock, nowRetrieve, nowCall, pool, events,
                   analytics, lookups, result, call, ret>>
    /\ UNCHANGED <<lruCache, clients, threads>>

\* line 178: analytics = get_event_analytics([ids of the candidates])
FetchAnalytics ==
    /\ pc = "analytics"
    /\ LET db == GetDb(dbCached, "analytics" \notin faults.dbFail)
           r  == GetEventAnalytics(EventIds(events), store.analytics, db.ok,
                                   faults.analyticsFail)
       IN /\ dbCached' = IF EventIds(events) = <<>> THEN dbCached ELSE db.cached
          /\ analytics' = r.result
          /\ lookups' = r.looked
          /\ raised' = r.raised
          /\ pc' = IF r.raised THEN "done" ELSE "rank"
    /\ UNCHANGED <<store, faults, req, clock, nowRetrieve, nowCall, pool, events,
                   profile, result, call, ret>>
    /\ UNCHANGED <<lruCache, clients, threads>>

\* lines 180-222: read the clock, re-filter, select the strategy, score,
\* sort, truncate, serialize, return
Rank ==
    /\ pc = "rank"
    /\ nowCall' = clock
    /\ events' = FilterPast(events, clock)
    /\ result' = RankEvents(events', profile, analytics, req.limit)
    /\ pc' = "done"
    /\ UNCHANGED <<store, faults, req, dbCached, clock, nowRetrieve, pool,
                   profile, analytics, lookups, raised, call, ret>>
    /\ UNCHANGED <<lruCache, clients, threads>>

Next == RetrieveCandidates \/ FetchProfile \/ FetchAnalytics \/ Rank

Spec == Init /\ [][Next]_vars

(***************************************************************************)
(* Properties of recommend_events                                          *)
(***************************************************************************)
Returned == pc = "done" /\ ~raised
Ranked == Returned /\ result.source \in {"personalized", "trending"}
StoredProfile == Get(store.profiles, req.user_id, MissingDoc)
UserGiven == req.user_id \notin {NONE, ""}
QueryResult == SelectActive(store.events, MAX_CANDIDATES)

\* C1: every returned event has status "active", an isPublic flag that is
\* not False, and a parsed date that is absent or not earlier than the
\* instants read by the call (in get_upcoming_events and before the
\* re-filter), whatever the store holds and whichever store calls fail.
C1_ReturnedEventsEligible ==
    Returned =>
        \A i \in 1..Len(result.events) :
            LET r == result.events[i]
                d == ParseEventDate(r)
            IN /\ Has(r, "status") /\ r["status"] = "active"
               /\ ~(Has(r, "isPublic") /\ r["isPublic"] = FALSE)
               /\ (d.some => d.aware /\ d.t >= nowCall /\ d.t >= nowRetrieve)

C1_Witness ==
    /\ Returned
    /\ Len(result.events) >= 1
    /\ ParseEventDate(result.events[1]).some
    /\ nowCall > nowRetrieve
    /\ \E i \in 1..Len(store.events) :
          LET b == store.events[i].data IN Has(b, "isPublic") /\ b["isPublic"] = FALSE

\* C2: the number of returned events is at most min(limit, number of
\* candidates that survive the past-date re-filter), and so at most the
\* size of the candidate pool.
C2_LengthBounded ==
    Returned =>
        /\ Len(result.events) <= Min(req.limit, Len(events))
        /\ Len(events) <= Len(pool)
        /\ Len(result.events) <= Len(pool)

C2_Witness ==
    /\ Ranked
    /\ req.limit = LIMIT_MAX
    /\ Len(pool) = MAX_CANDIDATES
    /\ Len(pool) > Len(events)
    /\ Len(events) > req.limit
    /\ Len(result.events) = req.limit

\* no usable profile: no user_id, document missing or empty, fetch failed,
\* or topCategories and topCities both empty
NoUsableProfile ==
    \/ ~UserGiven
    \/ faults.profileFail
    \/ ~StoredProfile.exists
    \/ StoredProfile.data = EmptyDict
    \/ /\ Get(StoredProfile.data, "topCategories", EmptyDict) = EmptyDict
       /\ Get(StoredProfile.data, "topCities", EmptyDict) = EmptyDict

UsableProfileFetched ==
    /\ UserGiven
    /\ ~faults.profileFail
    /\ StoredProfile.exists
    /\ \/ Get(StoredProfile.data, "topCategories", EmptyDict) # EmptyDict
       \/ Get(StoredProfile.data, "topCities", EmptyDict) # EmptyDict

\* C4 as stated: with a user_id whose profile has a non-empty topCategories
\* or topCities, the source is "personalized".
C4_Original ==
    (Returned /\ UsableProfileFetched) => result.source = "personalized"

\* C4 amended: with a user_id whose profile has a non-empty topCategories or
\* topCities, the source is "personalized" whenever candidate retrieval
\* returned at least one event (and "none" otherwise).
C4_PersonalizedSource ==
    (Returned /\ UsableProfileFetched) =>
        IF pool # <<>> THEN result.source = "personalized"
        ELSE result.source = "none"

C4_Witness ==
    /\ Returned
    /\ UsableProfileFetched
    /\ Get(StoredProfile.data, "topCategories", EmptyDict) = EmptyDict
    /\ pool # <<>>
    /\ result.source = "personalized"

\* the score of a returned event under the strategy that was selected
ResultScore(i) == Score(result.source, result.events[i], profile, analytics)
ResultDate(i) == ParseEventDate(result.events[i])

\* C5: the returned events are in descending order of score; of two with the
\* same score the one with the earlier parsed date comes first, and one
\* without a parsable date comes after every dated one.
C5_Ordered ==
    Ranked =>
        \A i, j \in 1..Len(result.events) :
            i < j =>
                /\ ResultScore(i) >= ResultScore(j)
                /\ ResultScore(i) = ResultScore(j) =>
                      /\ ResultDate(j).some => ResultDate(i).some
                      /\ (ResultDate(i).some /\ ResultDate(j).some) =>
                            ResultDate(i).t <= ResultDate(j).t

C5_Witness ==
    /\ Ranked
    /\ Len(result.events) = 3
    /\ ResultScore(1) = ResultScore(2) /\ ResultScore(2) = ResultScore(3)
    /\ ResultDate(1).some /\ ResultDate(2).some /\ ~ResultDate(3).some
    /\ ResultDate(1).t < ResultDate(2).t
    /\ result.events[1]["id"] = 3 /\ result.events[3]["id"] = 1

\* C6: whichever of the store calls fail (client construction, events
\* query, profile get, analytics gets), recommend_events raises nothing and
\* returns a list of events and a source among "personalized", "trending"
\* and "none".
C6_NeverRaises ==
    /\ ~raised
    /\ pc = "done" =>
          /\ result.source \in {"personalized", "trending", "none"}
          /\ result.events \in Seq({result.events[i] : i \in 1..Len(result.events)})
          /\ result.source = "none" => result.events = <<>>

C6_Witness ==
    /\ Returned
    /\ "analytics" \in faults.dbFail
    /\ UserGiven /\ faults.profileFail
    /\ faults.analyticsFail # {}
    /\ lookups # <<>>
    /\ result.events # <<>>

\* an error occurs during candidate retrieval: the client construction or
\* the stream raises, or a naive date is compared with the aware now
RetrievalError ==
    \/ "events" \in faults.dbFail
    \/ faults.streamFailAt \in 0..Len(QueryResult)
    \/ \E i \in 1..Len(QueryResult) :
          LET d == ParseEventDate(QueryResult[i].data) IN d.some /\ ~d.aware

\* C7 as stated: when an error occurs during candidate retrieval,
\* get_upcoming_events returns an empty list (and propagates nothing).
C7_EmptyOnError ==
    (pc # "start" /\ RetrievalError) => pool = <<>> /\ ~raised

\* the identifiers recommend_events passes to get_event_analytics
PassedIds == EventIds(pool)
Fetched == pc = "rank" \/ Ranked
GetFails(eid) == eid \in faults.analyticsFail
AnalyticsDoc(eid) == Get(store.analytics, eid, MissingDoc)

\* C8: get_event_analytics issues a get for the first 50 identifiers only;
\* the mapping it returns holds exactly those of them whose get succeeded on
\* an existing, non-empty document, with that document's dict; a failing get
\* omits only its identifier and raises nothing.
C8_AnalyticsPartial ==
    Fetched =>
        /\ ~raised
        /\ Len(lookups) <= ANALYTICS_BATCH
        /\ lookups = Prefix(PassedIds, ANALYTICS_BATCH)
        /\ \A i \in 1..Len(PassedIds) :
              LET eid == PassedIds[i] IN
              IF eid \in DOMAIN analytics
              THEN /\ analytics[eid] = AnalyticsDoc(eid).data
                   /\ AnalyticsDoc(eid).exists /\ analytics[eid] # EmptyDict
                   /\ ~GetFails(eid)
                   /\ \E j \in 1..Min(ANALYTICS_BATCH, Len(PassedIds)) : PassedIds[j] = eid
              ELSE \/ GetFails(eid)
                   \/ ~AnalyticsDoc(eid).exists
                   \/ AnalyticsDoc(eid).data = EmptyDict
                   \/ \A j \in 1..Min(ANALYTICS_BATCH, Len(PassedIds)) : PassedIds[j] # eid
        /\ \A eid \in DOMAIN analytics : \E i \in 1..Len(PassedIds) : PassedIds[i] = eid

C8_Witness ==
    /\ pc = "rank"
    /\ Len(PassedIds) > ANALYTICS_BATCH
    /\ Len(lookups) = ANALYTICS_BATCH
    /\ 1 \in faults.analyticsFail /\ ANALYTICS_BATCH \in faults.analyticsFail
    /\ 1 \notin DOMAIN analytics
    /\ 5 \in DOMAIN analytics

(***************************************************************************)
(* The scoring functions on their own: calls of score_event_with_profile   *)
(* and score_event_trending on enumerated events, profiles and analytics   *)
(***************************************************************************)
\* the dicts with key k absent or bound to one of vals
Opt(k, vals) == {EmptyDict} \cup {(k :> v) : v \in vals}
Join(A, B) == {a @@ b : a \in A, b \in B}

Tickets(tiers) == [isDict |-> TRUE, tiers |-> tiers]
ScoreEvents ==
    Join(Opt("category", {"", "music"}),
    Join(Opt("categoryName", {"sport"}),
    Join(Opt("city", {<<>>, K}),
    Join(Opt("location", {<<" ", "K", " ", ",", "L">>, <<",", "K">>, L}),
    Join(Opt("price", {0, 100}),
         Opt("ticketTypes", {[isDict |-> FALSE, tiers |-> EmptyDict],
                             Tickets([free |-> [price |-> 0]]),
                             Tickets([free |-> [price |-> 100]]),
                             Tickets([vip |-> [price |-> 0]])}))))))

ScoreProfiles ==
    Join(Opt("topCategories", {EmptyDict, [music |-> 3, sport |-> 1] @@ ("" :> 7)}),
    Join(Opt("topCities", {(K :> 2) @@ (L :> 1) @@ (<<>> :> 4)}),
         Opt("pricePreference", {"free", "paid", "any"})))

AnalyticsDicts ==
    Join(Opt("views", {0, 10}),
    Join(Opt("favorites", {5}),
    Join(Opt("shares", {2, -1}),
         Opt("conversionRate", {30}))))

TrendingEvents == Opt("id", {NoId, 1, 2})
AnalyticsMaps == Join(Opt(1, AnalyticsDicts), Opt(2, {[views |-> 10]}))

InitScore ==
    /\ store = [events |-> <<>>, profiles |-> EmptyDict, analytics |-> EmptyDict]
    /\ req = [user_id |-> NONE, limit |-> MAX_RECOMMENDATIONS]
    /\ faults = NoFaults
    /\ InitRequest
    /\ pc = "call"
    /\ \/ \E e \in ScoreEvents, p \in ScoreProfiles :
             call = [fn |-> "score_event_with_profile", event |-> e,
                     profile |-> p, analytics |-> EmptyDict]
       \/ \E e \in TrendingEvents, a \in AnalyticsMaps :
             call = [fn |-> "score_event_trending", event |-> e,
                     profile |-> EmptyDict, analytics |-> a]

CallScoreEventWithProfile ==
    /\ pc = "call" /\ call.fn = "score_event_with_profile"
    /\ ret' = [done |-> TRUE, value |-> ScoreEventWithProfile(call.event, call.profile)]
    /\ pc' = "returned"
    /\ UNCHANGED <<store, faults, req, dbCached, clock, nowRetrieve, nowCall, pool,
                   events, profile, analytics, lookups, result, raised, call>>
    /\ UNCHANGED <<lruCache, clients, threads>>

CallScoreEventTrending ==
    /\ pc = "call" /\ call.fn = "score_event_trending"
    /\ ret' = [done |-> TRUE, value |-> ScoreEventTrending(call.event, call.analytics)]
    /\ pc' = "returned"
    /\ UNCHANGED <<store, faults, req, dbCached, clock, nowRetrieve, nowCall, pool,
                   events, profile, analytics, lookups, result, raised, call>>
    /\ UNCHANGED <<lruCache, clients, threads>>

NextScore == CallScoreEventWithProfile \/ CallScoreEventTrending

SpecScore == InitScore /\ [][NextScore]_vars

\* the fields of the call, read as the claim reads them: an empty string is
\* no category and no city
ArgCategory ==
    LET e == call.event IN
    IF Has(e, "category") /\ e["category"] # "" THEN e["category"]
    ELSE IF Has(e, "categoryName") THEN e["categoryName"] ELSE ""
ArgLocationPrefix ==
    LET loc    == IF Has(call.event, "location") THEN call.event["location"] ELSE <<>>
        commas == {i \in 1..Len(loc) : loc[i] = ","}
        pre    == IF commas = {} THEN loc
                  ELSE SubSeq(loc, 1, (CHOOSE i \in commas : \A j \in commas : i <= j) - 1)
        inked  == {i \in 1..Len(pre) : pre[i] # " "}
    IN IF inked = {} THEN <<>>
       ELSE SubSeq(pre, CHOOSE i \in inked : \A j \in inked : i <= j,
                        CHOOSE i \in inked : \A j \in inked : i >= j)
ArgCity ==
    LET e == call.event IN
    IF Has(e, "city") /\ e["city"] # <<>> THEN e["city"] ELSE ArgLocationPrefix
ArgIsFree ==
    LET e == call.event IN
    \/ e["price"] = 0
    \/ /\ Has(e, "ticketTypes") /\ e["ticketTypes"].isDict
       /\ Has(e["ticketTypes"].tiers, "free")
       /\ Has(e["ticketTypes"].tiers["free"], "price")
       /\ e["ticketTypes"].tiers["free"]["price"] = 0
ArgWeights(k) == IF Has(call.profile, k) THEN call.profile[k] ELSE EmptyDict
ArgPreference ==
    IF Has(call.profile, "pricePreference") THEN call.profile["pricePreference"] ELSE ""
CategoryTerm ==
    IF ArgCategory # "" /\ ArgCategory \in DOMAIN ArgWeights("topCategories")
    THEN ArgWeights("topCategories")[ArgCategory] ELSE 0
CityTerm ==
    IF ArgCity # <<>> /\ ArgCity \in DOMAIN ArgWeights("topCities")
    THEN ArgWeights("topCities")[ArgCity] ELSE 0
PriceTerm ==
    IF ~Has(call.event, "price") THEN 0
    ELSE IF ArgPreference = "free" /\ ArgIsFree THEN 5
    ELSE IF ArgPreference = "paid" /\ ~ArgIsFree THEN 2
    ELSE 0

\* C9: score_event_with_profile is the sum of the topCategories weight of
\* the event's category (category, else categoryName) when it is a key, the
\* topCities weight of its city (city, else the trimmed prefix of location
\* before the first comma) when it is a key, and a price term of 5 (price
\* set, preference "free", event free), 2 (price set, preference "paid",
\* event not free) or 0; it is 0 for an empty profile.
C9_ProfileScore ==
    (pc = "returned" /\ call.fn = "score_event_with_profile") =>
        /\ ret.value = CategoryTerm + CityTerm + PriceTerm
        /\ call.profile = EmptyDict => ret.value = 0

C9_Witness ==
    /\ pc = "returned" /\ call.fn = "score_event_with_profile"
    /\ Has(call.event, "category") /\ call.event["category"] = ""
    /\ ~Has(call.event, "city")
    /\ CategoryTerm = 1 /\ CityTerm = 2 /\ PriceTerm = 5
    /\ call.event["price"] = 100
    /\ ret.value = 8

ArgEntry ==
    IF Has(call.event, "id") /\ call.event["id"] # NoId
       /\ Has(call.analytics, call.event["id"])
    THEN call.analytics[call.event["id"]] ELSE EmptyDict
Counter(k) == IF Has(ArgEntry, k) THEN ArgEntry[k] ELSE 0

\* C10: score_event_trending (in tenths) is 0 when the event has no
\* identifier or the mapping holds no non-empty entry for it, and otherwise
\* views*0.1 + favorites*2 + shares*1.5 + conversionRate*10 with an absent
\* counter taken as 0; so it is 0 under an empty mapping and not negative
\* when no counter is negative.
C10_TrendingScore ==
    (pc = "returned" /\ call.fn = "score_event_trending") =>
        /\ ArgEntry = EmptyDict => ret.value = 0
        /\ ArgEntry # EmptyDict =>
              ret.value = Counter("views") + 20 * Counter("favorites")
                          + 15 * Counter("shares") + Counter("conversionRate")
        /\ call.analytics = EmptyDict => ret.value = 0
        /\ (\A k \in DOMAIN ArgEntry : ArgEntry[k] >= 0) => ret.value >= 0

C10_Witness ==
    /\ pc = "returned" /\ call.fn = "score_event_trending"
    /\ ArgEntry = [views |-> 10, favorites |-> 5, shares |-> 2, conversionRate |-> 30]
    /\ ret.value = 170

(***************************************************************************)
(* _serialize_value on nested store values                                 *)
(***************************************************************************)
MaxLen == 2

\* a store value carries the tag of the branch of _serialize_value it takes:
\* None, a scalar (int, bool, str), an opaque object (geopoint), a datetime
\* (it has isoformat), an object that only has timestamp(), a dict, a list
Str(text) == [tag |-> "str", text |-> text]
Digits == <<"0", "1", "2", "3", "4", "5", "6", "7", "8", "9">>

\* datetime.isoformat(): the offset is printed for an aware datetime only
IsoFormat(t, aware) ==
    <<"1970-01-01T00:00:0", Digits[t + 1]>> \o (IF aware THEN <<"+00:00">> ELSE <<>>)

SerializeLeafKeepsDatetime(v) ==
    CASE v.tag = "datetime" -> Str(IsoFormat(v.t, v.aware))
      [] v.tag = "stamp" -> [tag |-> "datetime", t |-> v.secs, aware |-> TRUE]
      [] OTHER -> v

\* lines 31-36 and 41: None stays None, isoformat() of a datetime,
\* datetime.fromtimestamp(val.timestamp(), tz=utc).isoformat() of an object
\* with timestamp(), every other value as it is
SerializeLeaf(v) ==
    CASE v.tag = "datetime" -> Str(IsoFormat(v.t, v.aware))
      [] v.tag = "stamp" -> Str(IsoFormat(v.secs, TRUE))
      [] OTHER -> v

\* lines 37-40: a dict and a list are rebuilt from their serialized members
RECURSIVE SerializeNested(_)
SerializeNested(v) ==
    CASE v.tag = "dict" ->
            [tag |-> "dict",
             items |-> [k \in DOMAIN v.items |-> SerializeNested(v.items[k])]]
      [] v.tag = "list" ->
            [tag |-> "list",
             elems |-> [i \in 1..Len(v.elems) |-> SerializeNested(v.elems[i])]]
      [] OTHER -> SerializeLeaf(v)

Leaves ==
    { [tag |-> "none"], [tag |-> "int", n |-> 7], [tag |-> "bool", b |-> TRUE],
      Str(<<"x">>), [tag |-> "geopoint", lat |-> 1],
      [tag |-> "datetime", t |-> 1, aware |-> TRUE],
      [tag |-> "datetime", t |-> 2, aware |-> FALSE],
      [tag |-> "stamp", secs |-> 3] }

DictsOf(S) ==
    {[tag |-> "dict", items |-> f] : f \in UNION {[D -> S] : D \in SUBSET {"a", "b"}}}
ListsOf(S) ==
    {[tag |-> "list", elems |-> f] : f \in UNION {[1..n -> S] : n \in 0..MaxLen}}

\* members of the outer containers: the leaves and some containers of leaves
Members ==
    Leaves \cup
    { [tag |-> "dict", items |-> EmptyDict], [tag |-> "list", elems |-> <<>>],
      [tag |-> "dict", items |-> [a |-> [tag |-> "stamp", secs |-> 3]]],
      [tag |-> "dict", items |-> [a |-> [tag |-> "none"],
                                  b |-> [tag |-> "datetime", t |-> 1, aware |-> TRUE]]],
      [tag |-> "list", elems |-> <<[tag |-> "datetime", t |-> 2, aware |-> FALSE],
                                   [tag |-> "int", n |-> 7]>>],
      [tag |-> "list", elems |-> <<[tag |-> "stamp", secs |-> 3], Str(<<"x">>)>>] }

StoreValues == Members \cup DictsOf(Members) \cup ListsOf(Members)

InitSerialize ==
    /\ store = [events |-> <<>>, profiles |-> EmptyDict, analytics |-> EmptyDict]
    /\ req = [user_id |-> NONE, limit |-> MAX_RECOMMENDATIONS]
    /\ faults = NoFaults
    /\ InitRequest
    /\ pc = "call"
    /\ \E v \in StoreValues : call = [fn |-> "_serialize_value", val |-> v]

\* _serialize_value(val)
CallSerializeValue ==
    /\ pc = "call" /\ call.fn = "_serialize_value"
    /\ ret' = [done |-> TRUE, value |-> <<SerializeNested(call.val)>>]
    /\ pc' = "returned"
    /\ UNCHANGED <<store, faults, req, dbCached, clock, nowRetrieve, nowCall, pool,
                   events, profile, analytics, lookups, result, raised, call>>
    /\ UNCHANGED <<lruCache, clients, threads>>

\* _serialize_value applied to the value it returned
CallSerializeValueAgain ==
    /\ pc = "returned" /\ call.fn = "_serialize_value"
    /\ ret' = [done |-> TRUE,
               value |-> Append(ret.value, SerializeNested(ret.value[1]))]
    /\ pc' = "reserialized"
    /\ UNCHANGED <<store, faults, req, dbCached, clock, nowRetrieve, nowCall, pool,
                   events, profile, analytics, lookups, result, raised, call>>
    /\ UNCHANGED <<lruCache, clients, threads>>

NextSerialize == CallSerializeValue \/ CallSerializeValueAgain

SpecSerialize == InitSerialize /\ [][NextSerialize]_vars

\* s has the structure of v: a mapping has the same keys, a list has the
\* same length, member by member in the same place; a scalar is unchanged and
\* a timestamp has become a string
RECURSIVE SameShape(_, _)
SameShape(v, s) ==
    CASE v.tag = "dict" ->
            /\ s.tag = "dict"
            /\ DOMAIN s.items = DOMAIN v.items
            /\ \A k \in DOMAIN v.items : SameShape(v.items[k], s.items[k])
      [] v.tag = "list" ->
            /\ s.tag = "list"
            /\ Len(s.elems) = Len(v.elems)
            /\ \A i \in 1..Len(v.elems) : SameShape(v.elems[i], s.elems[i])
      [] v.tag \in {"datetime", "stamp"} -> s.tag = "str"
      [] OTHER -> s = v

\* C11: serializing a serialized value changes nothing, and the serialized
\* value of a mapping has the same keys and that of a list the same length
\* and order of members, at every depth.
C11_Idempotent ==
    /\ (pc \in {"returned", "reserialized"} /\ call.fn = "_serialize_value")
          => SameShape(call.val, ret.value[1])
    /\ (pc = "reserialized" /\ call.fn = "_serialize_value")
          => ret.value[2] = ret.value[1]

C11_Witness ==
    /\ pc = "reserialized"
    /\ call.val = [tag |-> "dict",
                   items |-> [a |-> [tag |-> "list",
                                     elems |-> <<[tag |-> "stamp", secs |-> 3],
                                                 Str(<<"x">>)>>],
                              b |-> [tag |-> "datetime", t |-> 1, aware |-> TRUE]]]
    /\ ret.value[2] =
          [tag |-> "dict",
           items |-> [a |-> [tag |-> "list",
                             elems |-> <<Str(<<"1970-01-01T00:00:0", "3", "+00:00">>),
                                         Str(<<"x">>)>>],
                      b |-> Str(<<"1970-01-01T00:00:0", "1", "+00:00">>)]]

(***************************************************************************)
(* Properties of the steps of recommend_events                             *)
(***************************************************************************)
LookedUp(eid) == \E j \in 1..Len(lookups) : lookups[j] = eid

\* C12: once the analytics step of a request with a non-empty candidate pool
\* is over, and so before any candidate is scored, a lookup has been made for
\* the identifier of every candidate of the pool.
C12_LookupEveryCandidate ==
    (Fetched /\ pool # <<>>) =>
        \A i \in 1..Len(pool) : LookedUp(Get(pool[i], "id", NoId))

\* C13: a request uses one instant as "now", in the candidate retriever's
\* past-event filter and in the re-filter alike, so the re-filter drops no
\* candidate that the retriever kept, however long the store reads take.
C13_SingleNow ==
    Ranked => (nowCall = nowRetrieve /\ events = pool)

(***************************************************************************)
(* get_db called by requests served on worker threads at the same time     *)
(* (firestore_client.py, routes/recommend.py).  lru_cache looks the key up, *)
(* calls firestore.Client on a miss without holding its lock, and stores   *)
(* the result unless another call stored one in between; either way the    *)
(* call returns the client it constructed itself.                          *)
(***************************************************************************)
\* the get_db calls of one request, in order: get_upcoming_events (line 97),
\* get_user_interest_profile (line 66), get_event_analytics (line 81); a
\* get_db that raises ends the request in get_upcoming_events (no candidate,
\* source "none") and in get_event_analytics (the route answers 503), and is
\* caught in get_user_interest_profile
AfterReturn(step) ==
    CASE step = "events" -> "profile"
      [] step = "profile" -> "analytics"
      [] OTHER -> "done"
AfterRaise(step) == IF step = "profile" THEN "analytics" ELSE "done"

InitWorkers ==
    /\ store = [events |-> <<>>, profiles |-> EmptyDict, analytics |-> EmptyDict]
    /\ req = [user_id |-> "u1", limit |-> MAX_RECOMMENDATIONS]
    /\ faults = NoFaults
    /\ InitRequest
    /\ pc = "serving"
    /\ call = NoCall

\* the cache lookup of the lru_cache wrapper: a hit returns the cached client
CacheLookup(t) ==
    /\ threads[t].step # "done" /\ threads[t].at = "call"
    /\ IF lruCache # NoClient
       THEN threads' = [threads EXCEPT ![t].got = @ \cup {lruCache},
                                       ![t].step = AfterReturn(@)]
       ELSE threads' = [threads EXCEPT ![t].at = "construct"]
    /\ UNCHANGED <<lruCache, clients>>
    /\ UNCHANGED <<store, faults, req, dbCached, clock, pc, nowRetrieve, nowCall,
                   pool, events, profile, analytics, lookups, result, raised,
                   call, ret>>

\* the miss calls firestore.Client(project=...), which returns a new client
\* or raises
Construct(t) ==
    /\ threads[t].at = "construct"
    /\ \/ /\ clients' = clients + 1
          /\ threads' = [threads EXCEPT ![t].mine = clients + 1, ![t].at = "store"]
       \/ /\ clients' = clients
          /\ threads' = [threads EXCEPT ![t].at = "call", ![t].step = AfterRaise(@)]
    /\ UNCHANGED lruCache
    /\ UNCHANGED <<store, faults, req, dbCached, clock, pc, nowRetrieve, nowCall,
                   pool, events, profile, analytics, lookups, result, raised,
                   call, ret>>

\* the wrapper stores the new client unless the key was stored meanwhile, and
\* returns the new client
CacheStore(t) ==
    /\ threads[t].at = "store"
    /\ lruCache' = IF lruCache = NoClient THEN threads[t].mine ELSE lruCache
    /\ threads' = [threads EXCEPT ![t].got = @ \cup {threads[t].mine},
                                  ![t].at = "call",
                                  ![t].step = AfterReturn(@)]
    /\ UNCHANGED clients
    /\ UNCHANGED <<store, faults, req, dbCached, clock, pc, nowRetrieve, nowCall,
                   pool, events, profile, analytics, lookups, result, raised,
                   call, ret>>

NextWorkers == \E t \in Workers : CacheLookup(t) \/ Construct(t) \/ CacheStore(t)

SpecWorkers == InitWorkers /\ [][NextWorkers]_vars

\* the clients that get_db calls have returned so far
Handles == UNION {threads[t].got : t \in Workers}

\* C14: whatever the interleaving of the requests, at most one store client
\* is ever constructed and every get_db call returns that one client.
C14_SingleClient ==
    /\ clients <= 1
    /\ Cardinality(Handles) <= 1
    /\ \A h \in Handles : h = lruCache

(***************************************************************************)
(* Properties of the returned list                                         *)
(***************************************************************************)
\* the filtered candidates as they would be returned
Candidates == [i \in 1..Len(events) |-> SerializeEvent(events[i])]
Count(x, s) == Cardinality({i \in 1..Len(s) : s[i] = x})
StrategyScore(e) == Score(result.source, e, profile, analytics)

\* a ranks strictly before b: a higher score, or the same score and a
\* strictly earlier date (an event without a date is later than a dated one)
Outranks(a, b) ==
    \/ StrategyScore(a) > StrategyScore(b)
    \/ /\ StrategyScore(a) = StrategyScore(b)
       /\ ParseEventDate(a).some
       /\ ~ParseEventDate(b).some \/ ParseEventDate(a).t < ParseEventDate(b).t

\* C15: the returned list is a best prefix of the filtered candidates: each
\* returned event is a filtered candidate and is returned no more often than
\* it is a candidate, and no candidate that is left out outranks a returned
\* event under the selected strategy.
C15_BestPrefix ==
    Ranked =>
        /\ \A i \in 1..Len(result.events) :
              /\ Count(result.events[i], Candidates) >= 1
              /\ Count(result.events[i], result.events)
                    <= Count(result.events[i], Candidates)
        /\ \A j \in 1..Len(Candidates) :
              Count(Candidates[j], result.events) < Count(Candidates[j], Candidates)
                 => \A i \in 1..Len(result.events) :
                       ~Outranks(Candidates[j], result.events[i])

C15_Witness ==
    /\ Ranked
    /\ Len(result.events) = 1 /\ Len(events) = 3
    /\ \E j, k \in 1..Len(Candidates) :
          /\ Count(Candidates[j], result.events) = 0
          /\ StrategyScore(Candidates[j]) = StrategyScore(result.events[1])
          /\ Outranks(result.events[1], Candidates[j])
          /\ StrategyScore(Candidates[k]) < StrategyScore(result.events[1])

\* the returned event r was read from the events document doc: it carries
\* the fields of the document body (the "id" field apart), serialized
ReadFrom(r, doc) ==
    /\ DOMAIN r = DOMAIN doc.data \cup {"id"}
    /\ \A k \in DOMAIN doc.data \ {"id"} : r[k] = SerializeValue(doc.data)[k]

\* C16: every returned event carries as "id" the identifier of the events
\* document it was read from, and its analytics were looked up under that
\* identifier, whatever the body of the document holds.
C16_IdIsDocumentId ==
    Ranked =>
        \A i \in 1..Len(result.events) :
            \E n \in 1..Len(store.events) :
                /\ ReadFrom(result.events[i], store.events[n])
                /\ result.events[i]["id"] = store.events[n].id
                /\ Len(pool) <= ANALYTICS_BATCH => LookedUp(store.events[n].id)

(***************************************************************************)
(* Two invocations of recommend_events that differ in the analytics only   *)
(***************************************************************************)
AnalyticsFailures == {{}, {1}, {2, 3}, {1, 2, 3}}

\* the first invocation reads store.analytics with the gets of
\* faults.analyticsFail raising; the second one reads call.analytics with the
\* gets of call.failing raising
InitTwin ==
    /\ \E ev \in FixedStores, p \in ProfileDocs, a \in AnalyticsStores :
          store = [events |-> ev, profiles |-> ("u1" :> p), analytics |-> a]
    /\ req \in [user_id : {NONE, "u1"}, limit : {1, LIMIT_MAX}]
    /\ \E af \in AnalyticsFailures : faults = [NoFaults EXCEPT !.analyticsFail = af]
    /\ InitRequest
    /\ pc = "start"
    /\ call \in [fn : {"recommend_events"}, analytics : AnalyticsStores,
                 failing : AnalyticsFailures]

\* recommend_events called again with the same request, at the same instants,
\* on the same events and profile documents
SecondInvocation ==
    /\ pc = "done" /\ call.fn = "recommend_events" /\ ~raised
    /\ LET db    == GetDb(dbCached, TRUE)
           cands == GetUpcomingEvents(store.events, nowRetrieve, MAX_CANDIDATES,
                                      db.ok, faults.streamFailAt)
           prof  == IF req.user_id \notin {NONE, ""}
                    THEN GetUserInterestProfile(store.profiles, req.user_id, db.ok,
                                                faults.profileFail).value
                    ELSE NoProfile
           an    == GetEventAnalytics(EventIds(cands), call.analytics, db.ok,
                                      call.failing)
       IN ret' = [done |-> TRUE,
                  analytics |-> an.result,
                  value |-> IF cands = <<>>
                            THEN [events |-> <<>>, source |-> "none"]
                            ELSE RankEvents(FilterPast(cands, nowCall), prof,
                                            an.result, req.limit)]
    /\ pc' = "twin"
    /\ UNCHANGED <<store, faults, req, dbCached, clock, nowRetrieve, nowCall, pool,
                   events, profile, analytics, lookups, result, raised, call>>
    /\ UNCHANGED <<lruCache, clients, threads>>

NextTwin ==
    RetrieveCandidates \/ FetchProfile \/ FetchAnalytics \/ Rank \/ SecondInvocation

SpecTwin == InitTwin /\ [][NextTwin]_vars

\* C17: of two invocations with the same candidates, profile, limit and
\* instants, the first of which selects the personalized strategy, the second
\* returns the same list of events and the same source, whatever the two
\* analytics collections hold and whichever analytics gets fail.
C17_AnalyticsIgnored ==
    (pc = "twin" /\ result.source = "personalized") => ret.value = result

C17_Witness ==
    /\ pc = "twin"
    /\ result.source = "personalized"
    /\ Len(result.events) = 3
    /\ faults.analyticsFail # call.failing
    /\ analytics # ret.analytics
    /\ \E i, j \in 1..3 :
          /\ ScoreEventTrending(result.events[i], analytics)
                < ScoreEventTrending(result.events[j], analytics)
          /\ ScoreEventTrending(result.events[i], ret.analytics)
                > ScoreEventTrending(result.events[j], ret.analytics)

====
